---- MODULE Spec2Model ----
(***************************************************************************)
(* Model of the AgriNova Labs contact function: the request handler        *)
(* (netlify/functions/contact.js), the Zoho token manager (zoho/auth.js),  *)
(* the Zoho mailer (zoho/mailer.js) and the field validator                *)
(* (utils/validator.js).                                                   *)
(*                                                                         *)
(* JavaScript strings that the code splits, trims or matches are modelled  *)
(* as sequences of one-character strings; opaque strings (tokens, error    *)
(* messages, header values of the response) are TLA+ strings.              *)
(***************************************************************************)
EXTENDS Integers, Sequences, FiniteSets

\* ------------------------------------------------------------------------
\* Program constants
\* ------------------------------------------------------------------------

\* contact.js: RATE_WINDOW_MS = 15 * 60 * 1000
RATE_WINDOW_MS == 900000
\* contact.js: RATE_MAX = 10
RATE_MAX == 10
\* auth.js: the 60_000 ms buffer of the cache test
TOKEN_BUFFER_MS == 60000
\* auth.js: data.expires_in || 3600
DEFAULT_EXPIRES_IN == 3600
\* validator.js: the three length limits
MIN_FIRST_NAME == 2
MIN_MESSAGE == 10
MAX_MESSAGE == 5000

\* ------------------------------------------------------------------------
\* Bounds of the model
\* ------------------------------------------------------------------------

\* Date.now() of the first modelled instant (any positive clock value).
StartTime == 1000
\* isRateLimited calls per key that the call history counts (it saturates).
MaxCalls == 12

\* ------------------------------------------------------------------------
\* State
\* ------------------------------------------------------------------------

VARIABLES
    now,          \* Date.now()
    ipLog,        \* contact.js: the Map ipLog, a function on the keys present
    cachedToken,  \* auth.js: _cachedToken (NULL when null)
    tokenExpiry,  \* auth.js: _tokenExpiry (0 when null: both are falsy in its one test)
    env,          \* process.env, the settings the code reads
    inv,          \* the async calls in progress, one record per caller
    rl            \* history of the isRateLimited calls, per key

vars == <<now, ipLog, cachedToken, tokenExpiry, env, inv, rl>>

NULL == "null"

\* ------------------------------------------------------------------------
\* Strings as character sequences
\* ------------------------------------------------------------------------

IsSpace(c) == c \in {" ", "\t", "\n"}

RECURSIVE TrimStart(_)
TrimStart(s) ==
    IF s = <<>> THEN <<>>
    ELSE IF IsSpace(Head(s)) THEN TrimStart(Tail(s))
    ELSE s

RECURSIVE TrimEnd(_)
TrimEnd(s) ==
    IF s = <<>> THEN <<>>
    ELSE IF IsSpace(s[Len(s)]) THEN TrimEnd(SubSeq(s, 1, Len(s) - 1))
    ELSE s

\* String.prototype.trim
Trim(s) == TrimEnd(TrimStart(s))

\* s.split(',')[0]: the text before the first comma (all of s when it has none)
RECURSIVE FirstField(_)
FirstField(s) ==
    IF s = <<>> THEN <<>>
    ELSE IF Head(s) = "," THEN <<>>
    ELSE <<Head(s)>> \o FirstField(Tail(s))

UNKNOWN == <<"u", "n", "k", "n", "o", "w", "n">>

\* ------------------------------------------------------------------------
\* contact.js: the rate limiter
\* ------------------------------------------------------------------------

\* Map.prototype.set
MapSet(m, k, v) == [x \in (DOMAIN m) \cup {k} |-> IF x = k THEN v ELSE m[x]]

\* isRateLimited with the limit test written count > RATE_MAX.
IsRateLimitedOffByOne(log, ip, t) ==
    LET entry == IF ip \in DOMAIN log THEN log[ip]
                 ELSE [count |-> 0, windowStart |-> t]
    IN  IF t - entry.windowStart > RATE_WINDOW_MS
        THEN [limited |-> FALSE,
              log     |-> MapSet(log, ip, [count |-> 1, windowStart |-> t])]
        ELSE IF entry.count > RATE_MAX
        THEN [limited |-> TRUE, log |-> log]
        ELSE [limited |-> FALSE,
              log     |-> MapSet(log, ip, [count       |-> entry.count + 1,
                                           windowStart |-> entry.windowStart])]

\* isRateLimited counting the call before it tests the limit.
IsRateLimitedCountsRejected(log, ip, t) ==
    LET entry == IF ip \in DOMAIN log THEN log[ip]
                 ELSE [count |-> 0, windowStart |-> t]
        counted == MapSet(log, ip, [count       |-> entry.count + 1,
                                    windowStart |-> entry.windowStart])
    IN  IF t - entry.windowStart > RATE_WINDOW_MS
        THEN [limited |-> FALSE,
              log     |-> MapSet(log, ip, [count |-> 1, windowStart |-> t])]
        ELSE IF entry.count >= RATE_MAX
        THEN [limited |-> TRUE, log |-> counted]
        ELSE [limited |-> FALSE, log |-> counted]

\* isRateLimited(ip) called at time t with the Map log: the value returned and
\* the Map afterwards.
IsRateLimited(log, ip, t) ==
    LET entry == IF ip \in DOMAIN log THEN log[ip]
                 ELSE [count |-> 0, windowStart |-> t]
    IN  IF t - entry.windowStart > RATE_WINDOW_MS
        THEN [limited |-> FALSE,
              log     |-> MapSet(log, ip, [count |-> 1, windowStart |-> t])]
        ELSE IF entry.count >= RATE_MAX
        THEN [limited |-> TRUE, log |-> log]
        ELSE [limited |-> FALSE,
              log     |-> MapSet(log, ip, [count       |-> entry.count + 1,
                                           windowStart |-> entry.windowStart])]

\* ------------------------------------------------------------------------
\* JSON values of the request body
\* ------------------------------------------------------------------------

\* A value is its JavaScript type and the text String(value) gives.
Undefined == [t |-> "undefined", s |-> <<"u", "n", "d", "e", "f", "i", "n", "e", "d">>]
JsNull    == [t |-> "null",      s |-> <<"n", "u", "l", "l">>]
Str(s)    == [t |-> "string", s |-> s]
Num(s)    == [t |-> "number", s |-> s]
Arr(s)    == [t |-> "array",  s |-> s]

\* ToBoolean: '' and 0 and null and undefined are falsy, an array is truthy.
Truthy(v) ==
    CASE v.t = "string" -> v.s # <<>>
      [] v.t = "number" -> v.s # <<"0">>
      [] v.t = "array"  -> TRUE
      [] OTHER          -> FALSE

\* String(v)
JsString(v) == v.s

\* Only a string has a trim method: v.trim() on anything else throws TypeError.
HasTrim(v) == v.t = "string"

\* A destructuring default (x = '') applies to undefined only.
OrEmpty(v) == IF v.t = "undefined" THEN Str(<<>>) ELSE v

\* ------------------------------------------------------------------------
\* validator.js
\* ------------------------------------------------------------------------

NoSpaceOrAt(s) == \A i \in 1..Len(s) : ~IsSpace(s[i]) /\ s[i] # "@"

\* EMAIL_RE = /^[^\s@]+@[^\s@]+\.[^\s@]{2,}$/ : some "@" at i and some "." at j
\* split s into three runs free of whitespace and "@", the last of length >= 2.
EmailReTest(s) ==
    \E i \in 1..Len(s) : \E j \in 1..Len(s) :
        /\ s[i] = "@" /\ s[j] = "." /\ i < j
        /\ i > 1 /\ NoSpaceOrAt(SubSeq(s, 1, i - 1))
        /\ j > i + 1 /\ NoSpaceOrAt(SubSeq(s, i + 1, j - 1))
        /\ Len(s) - j >= 2 /\ NoSpaceOrAt(SubSeq(s, j + 1, Len(s)))

FIRST_NAME_ERROR == "First name must be at least 2 characters."
EMAIL_ERROR      == "A valid email address is required."
TOO_SHORT_ERROR  == "Message must be at least 10 characters."
TOO_LONG_ERROR   == "Message must not exceed 5,000 characters."

\* validate with the upper limit test written length >= 5000.
ValidateMaxInclusive(firstName, email, message) ==
    (IF ~Truthy(firstName) \/ Len(Trim(JsString(firstName))) < MIN_FIRST_NAME
     THEN <<FIRST_NAME_ERROR>> ELSE <<>>)
    \o
    (IF ~Truthy(email) \/ ~EmailReTest(Trim(JsString(email)))
     THEN <<EMAIL_ERROR>> ELSE <<>>)
    \o
    (IF ~Truthy(message) \/ Len(Trim(JsString(message))) < MIN_MESSAGE
     THEN <<TOO_SHORT_ERROR>> ELSE <<>>)
    \o
    (IF Truthy(message) /\ Len(Trim(JsString(message))) >= MAX_MESSAGE
     THEN <<TOO_LONG_ERROR>> ELSE <<>>)

\* validate({ firstName, email, message }): the errors pushed, in order.
Validate(firstName, email, message) ==
    (IF ~Truthy(firstName) \/ Len(Trim(JsString(firstName))) < MIN_FIRST_NAME
     THEN <<FIRST_NAME_ERROR>> ELSE <<>>)
    \o
    (IF ~Truthy(email) \/ ~EmailReTest(Trim(JsString(email)))
     THEN <<EMAIL_ERROR>> ELSE <<>>)
    \o
    (IF ~Truthy(message) \/ Len(Trim(JsString(message))) < MIN_MESSAGE
     THEN <<TOO_SHORT_ERROR>> ELSE <<>>)
    \o
    (IF Truthy(message) /\ Len(Trim(JsString(message))) > MAX_MESSAGE
     THEN <<TOO_LONG_ERROR>> ELSE <<>>)

\* ------------------------------------------------------------------------
\* contact.js: responses
\* ------------------------------------------------------------------------

\* corsHeaders(origin)
CorsHeaders(origin) ==
    [AllowOrigin  |-> origin,
     AllowMethods |-> "POST, OPTIONS",
     AllowHeaders |-> "Content-Type",
     ContentType  |-> "none"]

\* respond(statusCode, body, origin): the CORS headers plus Content-Type, and
\* the body (JSON.stringify keeps what the body record holds).
Respond(statusCode, body, origin) ==
    [statusCode |-> statusCode,
     headers    |-> [CorsHeaders(origin) EXCEPT !.ContentType = "application/json"],
     body       |-> body]

\* respond's default parameter: origin = '*'
DefaultOrigin == "*"

\* process.env.ALLOWED_ORIGIN || '*'
AllowedOrigin == IF env.ALLOWED_ORIGIN # "" THEN env.ALLOWED_ORIGIN ELSE "*"

\* The bodies the handler responds with. errors and message are sequences.
ErrorBody(text)   == [success |-> FALSE, error |-> text, errors |-> <<>>, message |-> <<>>]
ErrorsBody(errs)  == [success |-> FALSE, error |-> "", errors |-> errs, message |-> <<>>]
SuccessBody(name) == [success |-> TRUE, error |-> "", errors |-> <<>>,
                      message |-> <<"Thank you, ">> \o name \o <<"! Your message has been sent.">>]
EmptyBody         == [success |-> FALSE, error |-> "", errors |-> <<>>, message |-> <<>>]

METHOD_ERROR  == "Method Not Allowed"
RATE_ERROR    == "Too many submissions. Please wait 15 minutes and try again."
JSON_ERROR    == "Invalid JSON body."
GENERIC_ERROR == "Failed to send your message. Please email us directly at oselu@agrinovalabs.site"

\* ------------------------------------------------------------------------
\* Errors, results and the record of one async call
\* ------------------------------------------------------------------------

\* new Error(message) / a TypeError raised by the runtime; the message is a
\* sequence of its literal and interpolated parts.
Err(msg)     == [name |-> "Error", message |-> msg]
TypeErr(msg) == [name |-> "TypeError", message |-> msg]
NoError      == [name |-> "none", message |-> <<>>]

\* How a call ended: it returned a value or threw an error.
NoResult      == [kind |-> "none",   value |-> "", error |-> NoError]
Returned(v)   == [kind |-> "value",  value |-> v,  error |-> NoError]
Thrown(e)     == [kind |-> "thrown", value |-> "", error |-> e]

NoResponse == [statusCode |-> 0, headers |-> CorsHeaders(""), body |-> EmptyBody]

NoHeader  == [set |-> FALSE, v |-> <<>>]
Header(s) == [set |-> TRUE, v |-> s]

NoBody == [kind |-> "empty", firstName |-> Undefined, lastName |-> Undefined,
           email |-> Undefined, phone |-> Undefined, interest |-> Undefined,
           message |-> Undefined]

NoEvent == [httpMethod |-> "", xff |-> NoHeader, body |-> NoBody]

NoData == [access_token |-> NULL, has_expires_in |-> FALSE, expires_in |-> 0]

\* No answer of the send endpoint yet.
NoReply == [kind |-> "none", status |-> 0, messageId |-> "", hasData |-> FALSE,
            errorCode |-> "", statusCode |-> "", detail |-> ""]

\* The callers whose calls may overlap at the awaits.
Procs == {"a", "b"}

\* A caller that is not inside a call.
Idle ==
    [pc     |-> "idle",     \* idle, token (exchange in flight), post (send in flight),
                            \* ret (a direct call ended), done (the handler responded),
                            \* threw (the handler's promise rejected)
     entry  |-> "none",     \* the function called: handler, send, token or validate
     event  |-> NoEvent,    \* the handler's event
     mail   |-> 0,          \* the email being sent: 1 notification, 2 auto-reply
     tnow   |-> 0,          \* getAccessToken: const now
     data   |-> NoData,     \* getAccessToken: the exchange's response data
     token  |-> NULL,       \* send: const accessToken
     result |-> NoResult,   \* what the call returned or threw
     resp   |-> NoResponse, \* the handler's response
     err    |-> NoError,    \* the error the handler caught
     fault  |-> "",         \* the diagnostic of the provider reply that failed, if one did
     got    |-> NoReply,    \* the send endpoint's last answer to this call
     nExch  |-> 0,          \* token exchanges this call started
     nPost  |-> 0,          \* POSTs to the send endpoint this call started
     nSent  |-> 0,          \* sends of this call that succeeded
     trace  |-> <<>>]       \* the handler stages entered, in order

\* ------------------------------------------------------------------------
\* contact.js: the handler's exits
\* ------------------------------------------------------------------------

\* return <response>
Responded(r, response) == [r EXCEPT !.pc = "done", !.resp = response]

\* an exception outside the try block: the handler's promise rejects
HandlerThrows(r, e) == [r EXCEPT !.pc = "threw", !.result = Thrown(e)]

\* The catch block answering with the caught error's message.
HandlerCatchLeaks(r, e) ==
    Responded([r EXCEPT !.err = e],
              Respond(500, ErrorBody(e.message[1]), AllowedOrigin))

\* catch (err) { ... return respond(500, ...) }
HandlerCatch(r, e) ==
    Responded([r EXCEPT !.err = e],
              Respond(500, ErrorBody(GENERIC_ERROR), AllowedOrigin))

\* A direct call of send or getAccessToken ends.
Return(r, res) == [r EXCEPT !.pc = "ret", !.result = res]

\* ------------------------------------------------------------------------
\* mailer.js: send, up to its POST
\* ------------------------------------------------------------------------

NO_ACCOUNT_ERROR == "ZOHO_ACCOUNT_ID is not set in Netlify environment variables."

\* getAccessToken's locals (const now, the response data) are dropped from the
\* record when they are of no more use.
Forget(r) == [r EXCEPT !.tnow = 0, !.data = NoData]

\* The handler treating a failed auto-reply as a success.
SendThrowsSwallowed(r, e) ==
    IF r.entry = "send" THEN Return(r, Thrown(e))
    ELSE IF r.mail = 2
    THEN Responded(Forget([r EXCEPT !.token = NULL]),
                   Respond(200, SuccessBody(<<>>), AllowedOrigin))
    ELSE HandlerCatch(Forget([r EXCEPT !.token = NULL]), e)

\* send issuing its POST once more after the first one failed.
SendThrowsRetries(r, e) ==
    IF r.pc = "post" /\ r.nPost = r.mail
    THEN [r EXCEPT !.nPost = @ + 1]
    ELSE IF r.entry = "send" THEN Return(r, Thrown(e))
    ELSE HandlerCatch(Forget([r EXCEPT !.token = NULL]), e)

\* send throws: to its caller, which is the handler's try block or a direct caller.
SendThrows(r, e) ==
    IF r.entry = "send" THEN Return(r, Thrown(e))
    ELSE HandlerCatch(Forget([r EXCEPT !.token = NULL]), e)

\* send after `await getAccessToken()` gave tok: the account id test, then the
\* POST to the send endpoint is issued and send suspends.
SendPost(r, tok) ==
    IF env.ZOHO_ACCOUNT_ID = ""
    THEN SendThrows(r, Err(<<NO_ACCOUNT_ERROR>>))
    ELSE [r EXCEPT !.pc = "post", !.token = tok, !.nPost = @ + 1]

\* ------------------------------------------------------------------------
\* auth.js: getAccessToken
\* ------------------------------------------------------------------------

TOKEN_ERROR == "Could not obtain Zoho access token. Check ZOHO_CLIENT_ID, ZOHO_CLIENT_SECRET, and ZOHO_REFRESH_TOKEN in Netlify environment variables."

\* The cache test written now <= _tokenExpiry - 60_000.
CacheValidAtBuffer(tok, exp, t) ==
    /\ tok # NULL /\ tok # ""
    /\ exp # 0
    /\ t <= exp - TOKEN_BUFFER_MS

\* _cachedToken && _tokenExpiry && now < _tokenExpiry - 60_000
CacheValid(tok, exp, t) ==
    /\ tok # NULL /\ tok # ""
    /\ exp # 0
    /\ t < exp - TOKEN_BUFFER_MS

\* getAccessToken returns tok: to send, or to a direct caller. When the token
\* comes from an exchange of this call, send's record keeps the call time and
\* the data of that exchange until send ends.
GetTokenReturns(r, tok) ==
    IF r.entry = "token" THEN Return(r, Returned(tok))
    ELSE SendPost(IF r.data = NoData THEN Forget(r) ELSE r, tok)

\* getAccessToken throws: send does not catch it (the call is outside its try).
GetTokenThrows(r, e) ==
    IF r.entry = "token" THEN Return(r, Thrown(e)) ELSE SendThrows(Forget(r), e)

\* getAccessToken() called: the cached token at once, or the exchange is issued
\* and the call suspends.
GetAccessToken(r) ==
    LET r1 == [r EXCEPT !.tnow = now]
    IN  IF CacheValid(cachedToken, tokenExpiry, now)
        THEN GetTokenReturns(r1, cachedToken)
        ELSE [r1 EXCEPT !.pc = "token", !.nExch = @ + 1]

\* const { data } = await axios.post(...)
DataOf(reply) ==
    [access_token   |-> reply.access_token,
     has_expires_in |-> reply.has_expires_in,
     expires_in     |-> reply.expires_in]

\* (data.expires_in || 3600)
ExpiresIn(data) ==
    IF data.has_expires_in /\ data.expires_in # 0
    THEN data.expires_in ELSE DEFAULT_EXPIRES_IN

\* The exchange succeeded: axios resolved and data.access_token is truthy.
ExchangeOk(reply) ==
    reply.kind = "response" /\ reply.access_token # NULL /\ reply.access_token # ""

\* getAccessToken rethrowing with the provider's answer in the message.
ExchangeErrorLeaks(reply) == Err(<<TOKEN_ERROR, reply.detail>>)

\* The error getAccessToken throws when the exchange failed with reply.
ExchangeError(reply) == Err(<<TOKEN_ERROR>>)

\* The expiry computed without the conversion to milliseconds.
NewExpiryInSeconds(tnow, data) == tnow + ExpiresIn(data)

\* _tokenExpiry = now + (data.expires_in || 3600) * 1000
NewExpiry(tnow, data) == tnow + ExpiresIn(data) * 1000

\* ------------------------------------------------------------------------
\* mailer.js: send
\* ------------------------------------------------------------------------

\* send(opts) called for email n.
Send(r, n) == GetAccessToken([r EXCEPT !.mail = n])

\* The success test accepting every answer that carries a message identifier.
SendOkAnyStatus(reply) ==
    reply.kind = "response" /\ reply.messageId # ""

\* status === 200 && data?.data?.messageId
SendOk(reply) ==
    reply.kind = "response" /\ reply.status = 200 /\ reply.messageId # ""

\* The error code read from data.errorCode alone.
ErrorCodeDataOnly(reply) == reply.errorCode

\* zohoError?.data?.errorCode || zohoError?.status?.code
ErrorCode(reply) ==
    IF reply.errorCode # "" THEN reply.errorCode ELSE reply.statusCode

\* The error send throws for a reply that is not a success (the catch block).
SendError(reply) ==
    IF reply.kind = "response"
    THEN Err(<<"Unexpected Zoho response: ", reply.detail>>)
    ELSE IF reply.hasData
    THEN CASE ErrorCode(reply) = "INVALID_OAUTHTOKEN" ->
                Err(<<"Zoho token is invalid. Check ZOHO_REFRESH_TOKEN in Netlify env vars.">>)
           [] ErrorCode(reply) = "INVALID_ACCOUNT" ->
                Err(<<"ZOHO_ACCOUNT_ID is wrong. Re-check it in Zoho Mail API settings.">>)
           [] ErrorCode(reply) = "QUOTA_EXCEEDED" ->
                Err(<<"Zoho Mail daily sending quota exceeded.">>)
           [] OTHER ->
                Err(<<"Zoho Mail API error: ", reply.detail>>)
    ELSE [name |-> "AxiosError", message |-> <<reply.detail>>]

\* ------------------------------------------------------------------------
\* contact.js: the handler
\* ------------------------------------------------------------------------

\* The client's key taken from the whole header, without the split.
ClientIpWholeHeader(xff) ==
    IF ~xff.set THEN UNKNOWN
    ELSE IF Trim(xff.v) = <<>> THEN UNKNOWN
    ELSE Trim(xff.v)

\* event.headers['x-forwarded-for']?.split(',')[0]?.trim() || 'unknown'
ClientIp(xff) ==
    IF ~xff.set THEN UNKNOWN
    ELSE IF Trim(FirstField(xff.v)) = <<>> THEN UNKNOWN
    ELSE Trim(FirstField(xff.v))

\* const { firstName = '', ... } = body, for a body JSON.parse accepted and
\* that is not null: a primitive or an empty object has none of the fields.
Fields(body) ==
    [firstName |-> OrEmpty(body.firstName),
     lastName  |-> OrEmpty(body.lastName),
     email     |-> OrEmpty(body.email),
     phone     |-> OrEmpty(body.phone),
     interest  |-> OrEmpty(body.interest),
     message   |-> OrEmpty(body.message)]

\* The handler after a send returned: the auto-reply's arguments are evaluated
\* (email.trim()) and it is sent, or the 200 response is returned.
HandlerAfterSend(r) ==
    LET f == Fields(r.event.body)
    IN  IF r.mail = 1
        THEN IF ~HasTrim(f.email)
             THEN HandlerCatch(r, TypeErr(<<"email.trim is not a function">>))
             ELSE Send(r, 2)
        ELSE Responded(r, Respond(200, SuccessBody(Trim(f.firstName.s)), AllowedOrigin))

\* send returns { success: true, messageId }.
SendReturns(r, reply) ==
    LET r1 == [r EXCEPT !.nSent = @ + 1]
    IN  IF r.entry = "send" THEN Return(r1, Returned(reply.messageId))
        ELSE HandlerAfterSend(Forget([r1 EXCEPT !.token = NULL]))

\* The method test letting GET through as well.
MethodRejectedButGet(method) == method \notin {"POST", "GET"}

\* The method test at the head of the handler.
MethodRejected(method) == method # "POST"

\* exports.handler(event) from its call to its first suspension or its return:
\* the caller's record and the Map ipLog afterwards.
Handler(r0, ev) ==
    LET r     == [r0 EXCEPT !.entry = "handler", !.event = ev, !.trace = <<"method">>]
        at(x, stage) == [x EXCEPT !.trace = Append(@, stage)]
        ip    == ClientIp(ev.xff)
        rate  == IsRateLimited(ipLog, ip, now)
        f     == Fields(ev.body)
        errors == Validate(f.firstName, f.email, f.message)
    IN  IF MethodRejected(ev.httpMethod)
        THEN [inv |-> Responded(r, Respond(405, ErrorBody(METHOD_ERROR), DefaultOrigin)),
              log |-> ipLog]
        ELSE IF ev.httpMethod = "OPTIONS"
        THEN [inv |-> Responded(r, [statusCode |-> 204,
                                    headers    |-> CorsHeaders(AllowedOrigin),
                                    body       |-> EmptyBody]),
              log |-> ipLog]
        ELSE IF rate.limited
        THEN [inv |-> Responded(at(r, "rate"),
                                Respond(429, ErrorBody(RATE_ERROR), AllowedOrigin)),
              log |-> rate.log]
        ELSE IF ev.body.kind = "invalid"
        THEN [inv |-> Responded(at(at(r, "rate"), "parse"),
                                Respond(400, ErrorBody(JSON_ERROR), AllowedOrigin)),
              log |-> rate.log]
        ELSE IF ev.body.kind = "null"
        THEN [inv |-> HandlerThrows(at(at(r, "rate"), "parse"),
                                    TypeErr(<<"Cannot destructure property of null">>)),
              log |-> rate.log]
        ELSE IF Len(errors) > 0
        THEN [inv |-> Responded(at(at(at(r, "rate"), "parse"), "validate"),
                                Respond(400, ErrorsBody(errors), AllowedOrigin)),
              log |-> rate.log]
        ELSE IF ~HasTrim(f.firstName) \/ ~HasTrim(f.lastName)
        THEN [inv |-> HandlerThrows(at(at(at(at(r, "rate"), "parse"), "validate"), "compose"),
                                    TypeErr(<<"trim is not a function">>)),
              log |-> rate.log]
        ELSE [inv |-> Send(at(at(at(at(at(r, "rate"), "parse"), "validate"), "compose"), "send"), 1),
              log |-> rate.log]

\* ------------------------------------------------------------------------
\* The environment: requests, provider replies, the clock
\* ------------------------------------------------------------------------

NAME    == <<"J", "a", "n", "e">>
SURNAME == <<"D", "o", "e">>
EMAIL   == <<"j", "@", "e", ".", "c", "o">>
MESSAGE == <<"H", "e", "l", "l", "o", " ", "t", "h", "e", "r", "e">>

ValidBody ==
    [kind |-> "object", firstName |-> Str(NAME), lastName |-> Str(SURNAME),
     email |-> Str(EMAIL), phone |-> Undefined, interest |-> Undefined,
     message |-> Str(MESSAGE)]

\* Request bodies: no body, malformed JSON, the JSON texts null and 5, and
\* objects whose fields are valid, invalid, or not strings.
Bodies ==
    { NoBody,
      [NoBody EXCEPT !.kind = "invalid"],
      [NoBody EXCEPT !.kind = "null"],
      [NoBody EXCEPT !.kind = "primitive"],
      ValidBody,
      [ValidBody EXCEPT !.email = Str(<<"n", "o", "t", "-", "a", "n", "-", "e", "m", "a", "i", "l">>)],
      [ValidBody EXCEPT !.lastName = JsNull],
      [ValidBody EXCEPT !.firstName = Num(<<"1", "2">>)],
      [ValidBody EXCEPT !.email = Arr(EMAIL)] }

XffValues == { NoHeader }

Events ==
    { [httpMethod |-> m, xff |-> NoHeader, body |-> ValidBody] : m \in {"GET", "OPTIONS"} }
    \cup
    { [httpMethod |-> "POST", xff |-> x, body |-> b] : x \in XffValues, b \in Bodies }

\* What the token endpoint may answer: a response with or without access_token
\* and expires_in, a non-2xx answer (axios rejects, err.response is set), or no
\* answer at all.
TokenReply(kind, tok, has, secs, detail) ==
    [kind |-> kind, access_token |-> tok, has_expires_in |-> has,
     expires_in |-> secs, detail |-> detail]

TokenReplies ==
    { TokenReply("response", tok, has, IF has THEN secs ELSE 0, "{access_token}") :
        tok \in {"tokA", "tokB"}, has \in BOOLEAN, secs \in {0, 120} }
    \cup
    { TokenReply("response", NULL, FALSE, 0, "{error:invalid_code}"),
      TokenReply("rejected", NULL, FALSE, 0, "{error:invalid_client}"),
      TokenReply("transport", NULL, FALSE, 0, "ECONNRESET") }

\* The token replies of the handler's specification: one token of the default
\* lifetime, and each way the exchange fails.
HandlerTokenReplies ==
    { r \in TokenReplies : r.access_token # "tokB" /\ ~r.has_expires_in }

\* What the send endpoint may answer.
SendReply(kind, status, mid, hasData, errorCode, statusCode, detail) ==
    [kind |-> kind, status |-> status, messageId |-> mid, hasData |-> hasData,
     errorCode |-> errorCode, statusCode |-> statusCode, detail |-> detail]

SendReplies ==
    { SendReply("response", 200, "m1", TRUE, "", "", "{data:{messageId:m1}}"),
      SendReply("response", 200, "", TRUE, "", "", "{data:{}}"),
      SendReply("response", 201, "m1", TRUE, "", "", "{data:{messageId:m1}}"),
      SendReply("rejected", 401, "", TRUE, "INVALID_OAUTHTOKEN", "", "{data:{errorCode:INVALID_OAUTHTOKEN}}"),
      SendReply("rejected", 400, "", TRUE, "", "INVALID_ACCOUNT", "{status:{code:INVALID_ACCOUNT}}"),
      SendReply("rejected", 429, "", TRUE, "QUOTA_EXCEEDED", "", "{data:{errorCode:QUOTA_EXCEEDED}}"),
      SendReply("rejected", 500, "", TRUE, "INTERNAL_ERROR", "", "{data:{errorCode:INTERNAL_ERROR}}"),
      SendReply("rejected", 502, "", FALSE, "", "", "Request failed with status code 502"),
      SendReply("transport", 0, "", FALSE, "", "", "timeout of 10000ms exceeded") }

\* The send endpoint's answers of the mailer's specification: those above and
\* a structured error that carries no code at all.
MailerSendReplies ==
    SendReplies \cup
    { SendReply("rejected", 500, "", TRUE, "", "", "{message:failed}") }

\* The token replies of the mailer's specification: two tokens of the default
\* lifetime, and each way the exchange fails.
MailerTokenReplies == { r \in TokenReplies : ~r.has_expires_in }

\* A valid submission without a forwarding header.
ValidPost == [httpMethod |-> "POST", xff |-> NoHeader, body |-> ValidBody]

\* The arguments of the validator's specification. A text of n characters, and
\* the same between blanks.
Text(n)   == [i \in 1..n |-> "x"]
Padded(s) == <<" ", "\t">> \o s \o <<" ">>

FirstNames ==
    { Undefined, JsNull, Str(<<>>), Str(<<" ", " ", " ">>),
      Str(Text(MIN_FIRST_NAME - 1)), Str(Padded(Text(MIN_FIRST_NAME - 1))),
      Str(Text(MIN_FIRST_NAME)), Str(Padded(Text(MIN_FIRST_NAME))),
      Num(<<"7">>), Num(<<"1", "2">>) }

Emails ==
    { Undefined, Str(EMAIL), Str(Padded(EMAIL)),
      Str(<<"j", "@", "e", ".", "c">>), Str(<<"j", " ", "@", "e", ".", "c", "o">>) }

Messages ==
    { Undefined, JsNull, Str(<<>>), Str(Padded(<<>>)),
      Str(Text(MIN_MESSAGE - 1)), Str(Padded(Text(MIN_MESSAGE - 1))),
      Str(Text(MIN_MESSAGE)), Str(Padded(Text(MIN_MESSAGE))),
      Str(Text(MAX_MESSAGE)), Str(Padded(Text(MAX_MESSAGE))),
      Str(Text(MAX_MESSAGE + 1)), Str(Padded(Text(MAX_MESSAGE + 1))) }

\* The requests of the key specification: no x-forwarded-for header, one
\* address, a list of two with blanks around the first, and a list whose first
\* entry is blank; POSTs that fail at parsing, at validation or not before the
\* sends, and a GET.
KeyHeaders ==
    { NoHeader,
      Header(<<"7">>),
      Header(<<" ", "7", " ", ",", " ", "8">>),
      Header(<<" ", ",", "8">>) }

KeyEvents ==
    { [httpMethod |-> "POST", xff |-> x, body |-> b] :
        x \in KeyHeaders,
        b \in { [NoBody EXCEPT !.kind = "invalid"], NoBody, ValidBody } }
    \cup
    { [httpMethod |-> "GET", xff |-> x, body |-> NoBody] : x \in KeyHeaders }

KeyTokenReplies ==
    { r \in HandlerTokenReplies : r.kind \in {"response"} /\ r.access_token # NULL }

KeySendReplies ==
    { r \in SendReplies : r.status \in {200, 429} /\ (r.kind = "response" => r.messageId # "") }

\* The instants the clock takes, around the rate window and around the token's
\* expiry less its buffer.
RateTimes ==
    { StartTime + d : d \in {0, 1, RATE_WINDOW_MS, RATE_WINDOW_MS + 1, RATE_WINDOW_MS + 2} }
AuthTimes ==
    { StartTime + d : d \in {0, 59000, 59999, 60000, 61000,
                             DEFAULT_EXPIRES_IN * 1000 - TOKEN_BUFFER_MS - 1,
                             DEFAULT_EXPIRES_IN * 1000 - TOKEN_BUFFER_MS} }
HandlerTimes ==
    { StartTime, StartTime + DEFAULT_EXPIRES_IN * 1000 }

\* The instants of the reuse specification, around a 120-second token's
\* expiry less its buffer.
ReuseTimes ==
    { StartTime + d : d \in {0, TOKEN_BUFFER_MS - 1, TOKEN_BUFFER_MS} }

RateKeys == { UNKNOWN, <<"7">> }

\* The calls made for one key: the time of the first, how many (up to
\* MaxCalls) and how many of those within the window of the first were let
\* through, what the last returned and whether it changed the Map, how many
\* came more than the window after the first and when the first of those came.
\* After a second such call the history is closed: it keeps the last call only.
NoCalls == [first |-> 0, n |-> 0, passed |-> 0, limited |-> FALSE, changed |-> FALSE,
            late |-> 0, lateAt |-> 0]
Closed  == [first |-> 0, n |-> 0, passed |-> 0, limited |-> FALSE, changed |-> FALSE,
            late |-> 2, lateAt |-> 0]

Min(a, b) == IF a < b THEN a ELSE b

\* The history h of key k after isRateLimited(k), called at time t with the Map
\* log, gave res.
Recorded(h, log, res, t) ==
    LET first == IF h.n = 0 THEN t ELSE h.first
        late  == t - first > RATE_WINDOW_MS
    IN  IF h.late = 2 \/ (h.late = 1 /\ late)
        THEN [Closed EXCEPT !.limited = res.limited, !.changed = (res.log # log)]
        ELSE [first   |-> first,
              n       |-> Min(h.n + 1, MaxCalls),
              passed  |-> IF late \/ res.limited THEN h.passed
                          ELSE Min(h.passed + 1, MaxCalls),
              limited |-> res.limited,
              changed |-> (res.log # log),
              late    |-> IF late THEN 1 ELSE h.late,
              lateAt  |-> IF late THEN t ELSE h.lateAt]

\* The call histories after exports.handler(ev): the handler calls
\* isRateLimited once, for the client's key, when the method is POST.
HandlerRecorded(ev) ==
    IF MethodRejected(ev.httpMethod) \/ ev.httpMethod = "OPTIONS" THEN rl
    ELSE [rl EXCEPT ![ClientIp(ev.xff)] =
            Recorded(@, ipLog, IsRateLimited(ipLog, ClientIp(ev.xff), now), now)]

\* ------------------------------------------------------------------------
\* Initial state: the modules are loaded, nothing was called
\* ------------------------------------------------------------------------

InitState ==
    /\ now = StartTime
    /\ ipLog = <<>>
    /\ cachedToken = NULL
    /\ tokenExpiry = 0
    /\ inv = [p \in Procs |-> Idle]
    /\ rl = [k \in RateKeys |-> NoCalls]

Init ==
    /\ InitState
    /\ env \in [ALLOWED_ORIGIN : {"", "https://agrinovaai.com"},
                ZOHO_ACCOUNT_ID : {"", "12345"},
                ZOHO_REFRESH_TOKEN : {"1000.rt"}]

\* ------------------------------------------------------------------------
\* Actions
\* ------------------------------------------------------------------------

\* The handler's update of the Map getting lost when another invocation is
\* suspended at an await.
InvokeLosesUpdate(p, events) ==
    /\ inv[p].pc = "idle"
    /\ \E ev \in events :
         LET h == Handler(Idle, ev)
         IN  /\ inv' = [inv EXCEPT ![p] = h.inv]
             /\ ipLog' = IF \E q \in Procs \ {p} : inv[q].pc \in {"token", "post"}
                         THEN ipLog ELSE h.log
             /\ rl' = HandlerRecorded(ev)
    /\ UNCHANGED <<now, cachedToken, tokenExpiry, env>>

\* The platform calls exports.handler(event).
Invoke(p, events) ==
    /\ inv[p].pc = "idle"
    /\ \E ev \in events :
         LET h == Handler(Idle, ev)
         IN  /\ inv' = [inv EXCEPT ![p] = h.inv]
             /\ ipLog' = h.log
             /\ rl' = HandlerRecorded(ev)
    /\ UNCHANGED <<now, cachedToken, tokenExpiry, env>>

\* A direct call of getAccessToken().
CallGetAccessToken(p) ==
    /\ inv[p].pc = "idle"
    /\ inv' = [inv EXCEPT ![p] = GetAccessToken([Idle EXCEPT !.entry = "token"])]
    /\ UNCHANGED <<now, ipLog, cachedToken, tokenExpiry, env, rl>>

\* A direct call of send(opts).
CallSend(p) ==
    /\ inv[p].pc = "idle"
    /\ inv' = [inv EXCEPT ![p] = Send([Idle EXCEPT !.entry = "send"], 1)]
    /\ UNCHANGED <<now, ipLog, cachedToken, tokenExpiry, env, rl>>

\* A direct call of validate({ firstName, email, message }): it returns at once.
CallValidate(p) ==
    /\ inv[p].pc = "idle"
    /\ \E f \in FirstNames : \E e \in Emails : \E m \in Messages :
         inv' = [inv EXCEPT ![p] =
                   Return([Idle EXCEPT !.entry = "validate",
                                       !.event.body = [NoBody EXCEPT !.kind = "object",
                                                                     !.firstName = f,
                                                                     !.email = e,
                                                                     !.message = m]],
                          Returned(Validate(f, e, m)))]
    /\ UNCHANGED <<now, ipLog, cachedToken, tokenExpiry, env, rl>>

\* getAccessToken resumes after `await axios.post(<token endpoint>)`.
TokenResponse(p, replies) ==
    /\ inv[p].pc = "token"
    /\ \E reply \in replies :
         IF ExchangeOk(reply)
         THEN /\ cachedToken' = reply.access_token
              /\ tokenExpiry' = NewExpiry(inv[p].tnow, DataOf(reply))
              /\ inv' = [inv EXCEPT ![p] =
                           GetTokenReturns([@ EXCEPT !.data = DataOf(reply)],
                                           reply.access_token)]
         ELSE /\ UNCHANGED <<cachedToken, tokenExpiry>>
              /\ inv' = [inv EXCEPT ![p] =
                           GetTokenThrows([@ EXCEPT !.fault = reply.detail],
                                          ExchangeError(reply))]
    /\ UNCHANGED <<now, ipLog, env, rl>>

\* send's failure for the notification not ending the handler: it goes on to
\* the auto-reply.
PostResponseContinues(p, replies) ==
    /\ inv[p].pc = "post"
    /\ \E reply \in replies :
         inv' = [inv EXCEPT ![p] =
                   IF SendOk(reply) THEN SendReturns([@ EXCEPT !.got = reply], reply)
                   ELSE IF @.entry = "handler" /\ @.mail = 1
                   THEN Send(Forget([@ EXCEPT !.fault = reply.detail, !.got = reply,
                                              !.token = NULL]), 2)
                   ELSE SendThrows([@ EXCEPT !.fault = reply.detail, !.got = reply],
                                   SendError(reply))]
    /\ UNCHANGED <<now, ipLog, cachedToken, tokenExpiry, env, rl>>

\* send dropping the cached token when the provider rejects it.
PostResponseInvalidates(p, replies) ==
    /\ inv[p].pc = "post"
    /\ \E reply \in replies :
         /\ inv' = [inv EXCEPT ![p] =
                      IF SendOk(reply) THEN SendReturns([@ EXCEPT !.got = reply], reply)
                      ELSE SendThrows([@ EXCEPT !.fault = reply.detail, !.got = reply],
                                      SendError(reply))]
         /\ IF ~SendOk(reply) /\ ErrorCode(reply) = "INVALID_OAUTHTOKEN"
            THEN cachedToken' = NULL /\ tokenExpiry' = 0
            ELSE UNCHANGED <<cachedToken, tokenExpiry>>
    /\ UNCHANGED <<now, ipLog, env, rl>>

\* send resumes after `await axios.post(<send endpoint>)`.
PostResponse(p, replies) ==
    /\ inv[p].pc = "post"
    /\ \E reply \in replies :
         inv' = [inv EXCEPT ![p] =
                   IF SendOk(reply) THEN SendReturns([@ EXCEPT !.got = reply], reply)
                   ELSE SendThrows([@ EXCEPT !.fault = reply.detail, !.got = reply],
                                   SendError(reply))]
    /\ UNCHANGED <<now, ipLog, cachedToken, tokenExpiry, env, rl>>

\* The caller takes the outcome; it may call again.
Finish(p) ==
    /\ inv[p].pc \in {"ret", "done", "threw"}
    /\ inv' = [inv EXCEPT ![p] = Idle]
    /\ UNCHANGED <<now, ipLog, cachedToken, tokenExpiry, env, rl>>

\* A direct call of isRateLimited(k), recorded in the key's call history.
RateCall(k) ==
    LET res == IsRateLimited(ipLog, k, now)
    IN  /\ ipLog' = res.log
        /\ rl' = [rl EXCEPT ![k] = Recorded(@, ipLog, res, now)]
        /\ UNCHANGED <<now, cachedToken, tokenExpiry, env, inv>>

\* Time passes.
Advance(times) ==
    /\ \E t \in times : t > now /\ now' = t
    /\ UNCHANGED <<ipLog, cachedToken, tokenExpiry, env, inv, rl>>

TickHandler == Advance(HandlerTimes)
TickRate    == Advance(RateTimes)
TickAuth    == Advance(AuthTimes)
TickReuse   == Advance(ReuseTimes)

\* ------------------------------------------------------------------------
\* Specifications
\* ------------------------------------------------------------------------

\* The handler, called by overlapping requests.
Next ==
    \/ \E p \in Procs : Invoke(p, Events)
    \/ \E p \in Procs : TokenResponse(p, HandlerTokenReplies)
    \/ \E p \in Procs : PostResponse(p, SendReplies)
    \/ \E p \in Procs : Finish(p)
    \/ TickHandler

Spec == Init /\ [][Next]_vars

\* The rate limiter alone.
NextRate ==
    \/ \E k \in RateKeys : RateCall(k)
    \/ TickRate

SpecRate == Init /\ [][NextRate]_vars

\* The token manager alone, called by overlapping callers.
InitAuth ==
    /\ InitState
    /\ env \in [ALLOWED_ORIGIN : {""},
                ZOHO_ACCOUNT_ID : {"12345"},
                ZOHO_REFRESH_TOKEN : {"1000.rt", "1000.other"}]

NextAuth ==
    \/ \E p \in Procs : CallGetAccessToken(p)
    \/ \E p \in Procs : TokenResponse(p, TokenReplies)
    \/ \E p \in Procs : Finish(p)
    \/ TickAuth

SpecAuth == InitAuth /\ [][NextAuth]_vars

\* The mailer alone, called by overlapping callers.
InitSend ==
    /\ InitState
    /\ env \in [ALLOWED_ORIGIN : {""},
                ZOHO_ACCOUNT_ID : {"", "12345"},
                ZOHO_REFRESH_TOKEN : {"1000.rt"}]

NextSend ==
    \/ \E p \in Procs : CallSend(p)
    \/ \E p \in Procs : TokenResponse(p, MailerTokenReplies)
    \/ \E p \in Procs : PostResponse(p, MailerSendReplies)
    \/ \E p \in Procs : Finish(p)
    \/ TickHandler

SpecSend == InitSend /\ [][NextSend]_vars

\* The validator alone, called by one caller.
NextValidate ==
    \/ CallValidate("a")
    \/ Finish("a")

SpecValidate == InitAuth /\ [][NextValidate]_vars

\* The handler called, one request at a time, for clients with different
\* forwarding headers.
NextKeys ==
    \/ Invoke("a", KeyEvents)
    \/ TokenResponse("a", KeyTokenReplies)
    \/ PostResponse("a", KeySendReplies)
    \/ Finish("a")
    \/ TickHandler

SpecKeys == InitAuth /\ [][NextKeys]_vars

\* The handler called for valid submissions, one request at a time, with
\* tokens of 120 and of 3600 seconds.
NextReuse ==
    \/ Invoke("a", {ValidPost})
    \/ TokenResponse("a", TokenReplies)
    \/ PostResponse("a", KeySendReplies)
    \/ Finish("a")
    \/ TickReuse

SpecReuse == InitAuth /\ [][NextReuse]_vars

\* ------------------------------------------------------------------------
\* Properties
\* ------------------------------------------------------------------------

\* The handler invocations in progress or just ended.
Invocations == { p \in Procs : inv[p].entry = "handler" }

Stages == <<"method", "rate", "parse", "validate", "compose", "send">>

IsPrefix(s, t) == Len(s) <= Len(t) /\ s = SubSeq(t, 1, Len(s))

Generic500 == Respond(500, ErrorBody(GENERIC_ERROR), AllowedOrigin)

\* C1: a POST proceeds to the rate-limit stage, an OPTIONS request is answered
\* 204 with an empty body and the CORS headers, any other method is answered 405.
C1_MethodDispatch ==
    \A p \in Invocations :
        LET m == inv[p].event.httpMethod
        IN  /\ m = "POST" => Len(inv[p].trace) >= 2 /\ inv[p].trace[2] = "rate"
            /\ m = "OPTIONS" =>
                 /\ inv[p].pc = "done"
                 /\ inv[p].resp = [statusCode |-> 204,
                                   headers    |-> CorsHeaders(AllowedOrigin),
                                   body       |-> EmptyBody]
            /\ m \notin {"POST", "OPTIONS"} =>
                 inv[p].pc = "done" /\ inv[p].resp.statusCode = 405

\* C2: for one key, from no entry, while every call so far came within the
\* window of the first, a call is limited exactly when it is the 11th or later;
\* the first call to come more than the window after the first is not limited
\* and leaves the entry {count: 1, windowStart: <time of that call>}.
C2_RateLimit ==
    \A k \in RateKeys :
        /\ rl[k].n > 0 /\ rl[k].late = 0 =>
             /\ rl[k].limited = (rl[k].n > RATE_MAX)
             /\ ipLog[k].windowStart = rl[k].first
        /\ rl[k].late = 1 =>
             /\ ~rl[k].limited
             /\ ipLog[k] = [count |-> 1, windowStart |-> rl[k].lateAt]

\* An 11th call within the window was limited, and for another key a call came
\* after the window of calls made before it.
C2_Witness ==
    \E k \in RateKeys : \E j \in RateKeys :
        /\ rl[k].n = RATE_MAX + 1 /\ rl[k].late = 0 /\ rl[k].limited
        /\ rl[j].late = 1 /\ rl[j].n = RATE_MAX + 2

\* C3: in a handler invocation the auto-reply send is started only after the
\* notification send returned, a failed notification send ends the invocation
\* with no auto-reply attempted, and at most one of the two sends is under way.
C3_SequentialSends ==
    \A p \in Invocations :
        /\ inv[p].mail = 2 => inv[p].nSent >= 1
        /\ inv[p].nPost <= inv[p].nSent + 1
        /\ inv[p].pc \in {"token", "post"} => inv[p].mail = inv[p].nSent + 1
        /\ inv[p].fault # "" /\ inv[p].nSent = 0 =>
             inv[p].pc = "done" /\ inv[p].mail = 1 /\ inv[p].nPost <= 1

\* The auto-reply's POST is in flight after the notification was sent.
C3_Witness ==
    \E p \in Invocations :
        inv[p].pc = "post" /\ inv[p].mail = 2 /\ inv[p].nSent = 1 /\ inv[p].nPost = 2

\* The direct getAccessToken calls.
TokenCalls == { p \in Procs : inv[p].entry = "token" }

\* p calls getAccessToken in this step.
CallsToken(p) == inv[p].pc = "idle" /\ inv'[p].pc # "idle" /\ inv'[p].entry = "token"

\* p's call returns from the cache in the step that makes it, with no exchange.
CacheHit(p) ==
    /\ inv'[p].pc = "ret" /\ inv'[p].nExch = 0
    /\ inv'[p].result = Returned(cachedToken)
    /\ UNCHANGED <<cachedToken, tokenExpiry>>

\* p's exchange ends in this step with a token.
ExchangeSucceeds(p) ==
    inv[p].pc = "token" /\ inv'[p].pc = "ret" /\ inv'[p].result.kind = "value"

\* p's exchange ends in this step with an error.
ExchangeFails(p) ==
    inv[p].pc = "token" /\ inv'[p].pc = "ret" /\ inv'[p].result.kind = "thrown"

\* The step of a getAccessToken call, with seconds(data) the lifetime cached.
TokenStep(p, seconds(_)) ==
    /\ CallsToken(p) =>
         /\ CacheHit(p) <=> (cachedToken # NULL /\ tokenExpiry - now > TOKEN_BUFFER_MS)
         /\ ~CacheHit(p) => inv'[p].pc = "token" /\ inv'[p].nExch = 1
                            /\ inv'[p].tnow = now
    /\ ExchangeSucceeds(p) =>
         /\ inv'[p].nExch = 1
         /\ cachedToken' = inv'[p].data.access_token
         /\ inv'[p].result = Returned(cachedToken')
         /\ tokenExpiry' = inv[p].tnow + seconds(inv'[p].data) * 1000

\* expires_in, 3600 s when it is absent
SecondsAsClaimed(data) ==
    IF data.has_expires_in THEN data.expires_in ELSE DEFAULT_EXPIRES_IN

\* expires_in, 3600 s when it is absent or 0
SecondsAmended(data) ==
    IF data.has_expires_in /\ data.expires_in # 0 THEN data.expires_in
    ELSE DEFAULT_EXPIRES_IN

\* C4 as claimed: getAccessToken returns the cached token with no exchange
\* exactly when a token is cached and the time is more than 60 s before its
\* expiry; otherwise it makes one exchange and on success caches the token with
\* expiry = call time + expires_in * 1000, 3600 s when expires_in is absent.
C4_AsClaimed == [][\A p \in Procs : TokenStep(p, SecondsAsClaimed)]_vars

\* C4, amended: the same, with 3600 s also when expires_in is 0.
C4_TokenCache == [][\A p \in Procs : TokenStep(p, SecondsAmended)]_vars

\* A call 61 s before the expiry was answered from the cache, and another
\* caller's call made an exchange whose response gave expires_in: 120.
C4_Witness ==
    \E p \in TokenCalls : \E q \in TokenCalls :
        /\ inv[p].pc = "ret" /\ inv[p].nExch = 0 /\ inv[p].result.kind = "value"
        /\ tokenExpiry - inv[p].tnow = TOKEN_BUFFER_MS + 1000
        /\ inv[q].pc = "ret" /\ inv[q].nExch = 1 /\ inv[q].result.kind = "value"
        /\ inv[q].data.has_expires_in /\ inv[q].data.expires_in = 120

\* C5: a failed exchange leaves _cachedToken and _tokenExpiry as they were and
\* throws one fixed error, the same for every failure and every configuration.
C5_ExchangeFailure ==
    [][\A p \in Procs :
         ExchangeFails(p) =>
            /\ UNCHANGED <<cachedToken, tokenExpiry>>
            /\ inv'[p].result = Thrown(Err(<<TOKEN_ERROR>>))
            /\ \A q \in Procs :
                 inv'[q].result.kind = "thrown" => inv'[q].result = inv'[p].result]_vars

\* Two calls failed for different reasons while a token was cached.
C5_Witness ==
    \E p \in TokenCalls : \E q \in TokenCalls :
        /\ inv[p].result.kind = "thrown" /\ inv[q].result.kind = "thrown"
        /\ inv[p].fault # "" /\ inv[q].fault # "" /\ inv[p].fault # inv[q].fault
        /\ cachedToken # NULL

\* C6: a handler invocation in which a provider call failed is answered 500
\* with the generic message, and two such invocations get the same response
\* whatever failed.
C6_GenericFailure ==
    \A p \in Invocations :
        /\ inv[p].fault # "" =>
            /\ inv[p].pc = "done"
            /\ inv[p].resp = Generic500
            /\ \A q \in Invocations : inv[q].fault # "" => inv[q].resp = inv[p].resp
        /\ inv[p].err # NoError => inv[p].pc = "done" /\ inv[p].resp = Generic500

\* Two invocations ended on different provider failures.
C6_Witness ==
    \E p \in Invocations : \E q \in Invocations :
        /\ inv[p].fault = "ECONNRESET"
        /\ inv[q].fault = "{data:{errorCode:QUOTA_EXCEEDED}}"
        /\ inv[p].err # inv[q].err

\* C7: an error thrown in the compose or send stage is answered 500: the
\* handler never ends with an exception from those stages.
C7_ComposeAndSendCaught ==
    \A p \in Invocations :
        inv[p].trace # <<>> /\ inv[p].trace[Len(inv[p].trace)] \in {"compose", "send"} =>
            inv[p].pc # "threw"

\* C8: every response carries the two fixed CORS headers and the configured
\* origin, '*' when none is configured.
C8_CorsHeaders ==
    \A p \in Invocations :
        inv[p].pc = "done" =>
            /\ inv[p].resp.statusCode \in {200, 204, 400, 405, 429, 500}
            /\ inv[p].resp.headers.AllowMethods = "POST, OPTIONS"
            /\ inv[p].resp.headers.AllowHeaders = "Content-Type"
            /\ inv[p].resp.headers.AllowOrigin =
                 (IF env.ALLOWED_ORIGIN # "" THEN env.ALLOWED_ORIGIN ELSE "*")

\* C9: the stages run in the order method, rate limit, parse, validate,
\* (compose,) send; the stage that fails is the last one entered; an invocation
\* answered 405, 429 or 400 made no token exchange and no POST to the send
\* endpoint.
C9_Pipeline ==
    \A p \in Invocations :
        LET r == inv[p]
            last == r.trace[Len(r.trace)]
        IN  /\ r.trace # <<>> /\ IsPrefix(r.trace, Stages)
            /\ r.event.httpMethod # "POST" =>
                 r.pc = "done" /\ r.resp.statusCode = 405 /\ last = "method"
            /\ r.pc = "done" /\ r.resp.statusCode = 405 => last = "method"
            /\ r.pc = "done" /\ r.resp.statusCode = 429 => last = "rate"
            /\ r.pc = "done" /\ r.resp.statusCode = 400 =>
                 /\ last \in {"parse", "validate"}
                 /\ last = "parse" <=> r.event.body.kind = "invalid"
                 /\ last = "parse" <=> r.resp.body.error = JSON_ERROR
            /\ r.event.body.kind = "invalid" /\ Len(r.trace) >= 3 =>
                 r.pc = "done" /\ r.resp.statusCode = 400 /\ last = "parse"
            /\ r.pc = "done" /\ r.resp.statusCode \in {405, 429, 400} =>
                 r.nExch = 0 /\ r.nPost = 0 /\ r.mail = 0
            /\ r.nExch > 0 \/ r.nPost > 0 \/ r.mail > 0 => r.trace = Stages

\* One invocation was answered 429 and another 400 for its fields.
C9_Witness ==
    \E p \in Invocations : \E q \in Invocations :
        /\ inv[p].pc = "done" /\ inv[p].resp.statusCode = 429
        /\ inv[q].pc = "done" /\ inv[q].resp.statusCode = 400
        /\ inv[q].trace[Len(inv[q].trace)] = "validate"

\* C10: the handler answers 200 with success: true exactly when both sends of
\* the invocation returned; after one send only, it answers 500.
C10_SuccessIffBothSent ==
    \A p \in Invocations :
        inv[p].pc = "done" =>
            /\ inv[p].resp.statusCode = 200 <=> inv[p].nSent = 2
            /\ inv[p].resp.body.success <=> inv[p].nSent = 2
            /\ inv[p].nSent = 1 => inv[p].resp.statusCode = 500

\* One invocation was answered 200, another 500 after its notification was sent
\* and its auto-reply failed.
C10_Witness ==
    \E p \in Invocations : \E q \in Invocations :
        /\ inv[p].pc = "done" /\ inv[p].resp.statusCode = 200 /\ inv[p].nSent = 2
        /\ inv[q].pc = "done" /\ inv[q].resp.statusCode = 500 /\ inv[q].nSent = 1
        /\ inv[q].nPost = 2 /\ inv[q].fault # ""

\* The direct calls of send in progress or just ended.
SendCalls == { p \in Procs : inv[p].entry = "send" }

\* C11: a call of send that got the provider's answer returned the message
\* identifier exactly when the answer had status 200 and a non-empty message
\* identifier; otherwise (no identifier, or a status other than 200) it threw.
C11_SendSuccess ==
    \A p \in SendCalls :
        inv[p].pc = "ret" /\ inv[p].got # NoReply =>
            LET ok == /\ inv[p].got.kind = "response"
                      /\ inv[p].got.status = 200
                      /\ inv[p].got.messageId # ""
            IN  /\ ok  => inv[p].result = Returned(inv[p].got.messageId)
                /\ ~ok => inv[p].result.kind = "thrown"

\* One call threw on a 201 answer that carried an identifier, while a 200
\* answer with an identifier had made another call return it.
C11_Witness ==
    \E p \in SendCalls : \E q \in SendCalls :
        /\ inv[p].pc = "ret" /\ inv[p].result.kind = "thrown"
        /\ inv[p].got.kind = "response" /\ inv[p].got.status = 201
        /\ inv[p].got.messageId # ""
        /\ inv[q].pc = "ret" /\ inv[q].result = Returned("m1")
        /\ inv[q].got.status = 200

\* The error thrown by axios itself for an answer that is no structured
\* provider error: no answer, or a rejected one without a body.
AxiosError(reply) == [name |-> "AxiosError", message |-> <<reply.detail>>]

AUTH_FAILURE   == Err(<<"Zoho token is invalid. Check ZOHO_REFRESH_TOKEN in Netlify env vars.">>)
CONFIG_FAILURE == Err(<<"ZOHO_ACCOUNT_ID is wrong. Re-check it in Zoho Mail API settings.">>)
QUOTA_FAILURE  == Err(<<"Zoho Mail daily sending quota exceeded.">>)

\* The provider's error code, wherever the answer carries it.
CodeOf(reply) ==
    IF reply.errorCode # "" THEN reply.errorCode ELSE reply.statusCode

\* C12: a call of send that threw after the provider's answer threw the error
\* the answer determines: the auth, config and quota failures (all different)
\* for the codes INVALID_OAUTHTOKEN, INVALID_ACCOUNT and QUOTA_EXCEEDED, the
\* generic provider failure with the raw diagnostic for any other structured
\* error, and the original error unchanged when the failure has no structured
\* provider response.
C12_FailureMapping ==
    /\ AUTH_FAILURE # CONFIG_FAILURE /\ AUTH_FAILURE # QUOTA_FAILURE
    /\ CONFIG_FAILURE # QUOTA_FAILURE
    /\ \A p \in SendCalls :
        inv[p].pc = "ret" /\ inv[p].got # NoReply /\ inv[p].result.kind = "thrown" =>
            LET reply == inv[p].got
                e     == inv[p].result.error
                structured == reply.kind = "rejected" /\ reply.hasData
            IN  /\ structured /\ CodeOf(reply) = "INVALID_OAUTHTOKEN" => e = AUTH_FAILURE
                /\ structured /\ CodeOf(reply) = "INVALID_ACCOUNT" => e = CONFIG_FAILURE
                /\ structured /\ CodeOf(reply) = "QUOTA_EXCEEDED" => e = QUOTA_FAILURE
                /\ structured /\ CodeOf(reply) \notin
                       {"INVALID_OAUTHTOKEN", "INVALID_ACCOUNT", "QUOTA_EXCEEDED"} =>
                     e = Err(<<"Zoho Mail API error: ", reply.detail>>)
                /\ reply.kind # "response" /\ ~structured => e = AxiosError(reply)
                /\ reply.kind = "response" =>
                     e = Err(<<"Unexpected Zoho response: ", reply.detail>>)

\* One call threw the config failure for a code carried in status.code, another
\* the generic provider failure for a structured error without any code.
C12_Witness ==
    \E p \in SendCalls : \E q \in SendCalls :
        /\ inv[p].pc = "ret" /\ inv[p].result = Thrown(CONFIG_FAILURE)
        /\ inv[p].got.statusCode = "INVALID_ACCOUNT"
        /\ inv[q].pc = "ret" /\ inv[q].got.kind = "rejected" /\ inv[q].got.hasData
        /\ inv[q].got.errorCode = "" /\ inv[q].got.statusCode = ""
        /\ inv[q].result = Thrown(Err(<<"Zoho Mail API error: ", inv[q].got.detail>>))

\* C13: nothing is retried. Each call of send issues at most one POST to the
\* send endpoint and at most one token exchange, so a handler invocation, which
\* calls send once per email, issues at most two POSTs; and an invocation whose
\* exchange or POST failed has ended with nothing in flight, every POST it
\* issued but the failed one having succeeded.
C13_NoRetry ==
    \A p \in Invocations :
        LET r == inv[p]
        IN  /\ r.nPost <= r.mail /\ r.nExch <= r.mail
            /\ r.nPost <= 2
            /\ r.nPost <= r.nSent + 1
            /\ r.fault # "" =>
                 /\ r.pc = "done"
                 /\ r.nPost \in {r.nSent, r.nSent + 1}

\* One invocation ended on its one failed exchange without any POST, another
\* on the failed POST of its auto-reply, its second POST.
C13_Witness ==
    \E p \in Invocations : \E q \in Invocations :
        /\ inv[p].pc = "done" /\ inv[p].fault # ""
        /\ inv[p].nExch = 1 /\ inv[p].nPost = 0
        /\ inv[q].pc = "done" /\ inv[q].fault # ""
        /\ inv[q].nPost = 2 /\ inv[q].nSent = 1 /\ inv[q].mail = 2

\* The direct calls of validate that returned.
ValidateCalls == { p \in Procs : inv[p].entry = "validate" /\ inv[p].pc = "ret" }

\* A field that was not given.
Absent(v) == v.t \in {"undefined", "null"}

\* The number of characters the field's text trims to.
TrimLen(v) == Len(Trim(v.s))

Has(errors, e) == \E i \in 1..Len(errors) : errors[i] = e

\* C14: validate returns exactly the errors of the failing rules in the order
\* firstName, email, too short, too long. The firstName error is there iff
\* firstName is absent or trims to fewer than 2 characters; the too-short
\* error iff message is absent or trims to fewer than 10 characters (9 fails,
\* 10 passes); the too-long error iff message trims to more than 5000
\* characters (5000 passes, 5001 fails); too short and too long never both.
C14_ValidateRules ==
    \A p \in ValidateCalls :
        LET f == inv[p].event.body.firstName
            e == inv[p].event.body.email
            m == inv[p].event.body.message
            errors == inv[p].result.value
            noName  == Absent(f) \/ TrimLen(f) < 2
            noEmail == Absent(e) \/ ~EmailReTest(Trim(e.s))
            short   == Absent(m) \/ TrimLen(m) < 10
            long    == ~Absent(m) /\ TrimLen(m) > 5000
        IN  /\ errors = (IF noName  THEN <<FIRST_NAME_ERROR>> ELSE <<>>)
                        \o (IF noEmail THEN <<EMAIL_ERROR>> ELSE <<>>)
                        \o (IF short   THEN <<TOO_SHORT_ERROR>> ELSE <<>>)
                        \o (IF long    THEN <<TOO_LONG_ERROR>> ELSE <<>>)
            /\ ~Absent(m) /\ TrimLen(m) = 9    => Has(errors, TOO_SHORT_ERROR)
            /\ ~Absent(m) /\ TrimLen(m) = 10   => ~Has(errors, TOO_SHORT_ERROR)
            /\ ~Absent(m) /\ TrimLen(m) = 5000 => ~Has(errors, TOO_LONG_ERROR)
            /\ ~Absent(m) /\ TrimLen(m) = 5001 => Has(errors, TOO_LONG_ERROR)
            /\ ~(Has(errors, TOO_SHORT_ERROR) /\ Has(errors, TOO_LONG_ERROR))

\* A call with a one-character name, an email with a blank inside and a message
\* that trims to 5001 characters returned the three errors in order.
C14_Witness ==
    \E p \in ValidateCalls :
        /\ inv[p].result.value = <<FIRST_NAME_ERROR, EMAIL_ERROR, TOO_LONG_ERROR>>
        /\ TrimLen(inv[p].event.body.firstName) = 1
        /\ TrimLen(inv[p].event.body.message) = 5001
        /\ Len(inv[p].event.body.message.s) > 5001

\* C15: a call of isRateLimited that returned limited changed nothing in the
\* Map (no key's entry, so neither the count nor the window of its own key),
\* and every stored entry has a count between 1 and 10.
C15_LimitedChangesNothing ==
    /\ \A k \in RateKeys :
         rl[k].limited =>
            /\ ~rl[k].changed
            /\ ipLog[k].count = RATE_MAX
            /\ rl[k].late = 0 => ipLog[k].windowStart = rl[k].first
    /\ \A k \in DOMAIN ipLog : ipLog[k].count >= 1 /\ ipLog[k].count <= 10

\* The 11th and the 12th call of one key within its window were limited and its
\* entry still counts 10, while another key's entry counts fewer.
C15_Witness ==
    \E k \in RateKeys : \E j \in RateKeys :
        /\ rl[k].n = RATE_MAX + 2 /\ rl[k].late = 0 /\ rl[k].limited
        /\ ~rl[k].changed /\ ipLog[k].count = RATE_MAX
        /\ j \in DOMAIN ipLog /\ ipLog[j].count < RATE_MAX

\* C16: with invocations interleaved at their awaits, no update of a key's
\* entry is lost and at most 10 invocations of a key pass the rate-limit stage
\* within one window: while every call so far came within the window of the
\* first, the entry's count is the number of invocations that passed, which is
\* at most 10, and an invocation in progress beyond that stage is one of them.
C16_NoLostUpdate ==
    \A k \in RateKeys :
        rl[k].n > 0 /\ rl[k].late = 0 =>
            /\ rl[k].passed <= RATE_MAX
            /\ ipLog[k].count = rl[k].passed
            /\ Cardinality({ p \in Invocations :
                               /\ ClientIp(inv[p].event.xff) = k
                               /\ Len(inv[p].trace) > 2 }) <= rl[k].passed

\* Both callers are suspended in invocations that passed, the window's 10th
\* among them.
C16_Witness ==
    \E k \in RateKeys :
        /\ rl[k].late = 0 /\ rl[k].passed = RATE_MAX /\ ipLog[k].count = RATE_MAX
        /\ \A p \in Procs : inv[p].pc \in {"token", "post"}

\* C17: every handler invocation, whatever its method, headers and body, ends
\* by returning a response with status 200, 204, 400, 405, 429 or 500; its
\* promise never rejects.
C17_AlwaysResponds ==
    \A p \in Invocations :
        /\ inv[p].pc # "threw"
        /\ inv[p].pc = "done" =>
             inv[p].resp.statusCode \in {200, 204, 400, 405, 429, 500}

\* The key as the first comma-separated entry of the header, trimmed, and
\* "unknown" without the header.
KeyAsClaimed(xff) ==
    IF ~xff.set THEN UNKNOWN ELSE Trim(FirstField(xff.v))

\* The same, and "unknown" also when that entry is empty.
KeyAmended(xff) ==
    IF ~xff.set \/ Trim(FirstField(xff.v)) = <<>> THEN UNKNOWN
    ELSE Trim(FirstField(xff.v))

\* A step that starts an invocation of caller p.
Starts(p) == inv[p].pc = "idle" /\ inv'[p].entry = "handler"

\* What a step does to the Map when the key of a request is key(its header):
\* a step that starts a non-POST invocation, and a step that starts none,
\* leave the Map as it is; a step that starts a POST invocation changes the
\* entry of the request's key only, counting the request (from 1 when the key
\* has no entry or its window is over) unless it is answered 429.
KeyedCount(key(_)) ==
    /\ (\A p \in Procs : ~Starts(p)) => ipLog' = ipLog
    /\ \A p \in Procs :
         Starts(p) =>
            LET ev == inv'[p].event
                k  == key(ev.xff)
            IN  IF ev.httpMethod # "POST" THEN ipLog' = ipLog
                ELSE /\ k \in DOMAIN ipLog'
                     /\ \A j \in DOMAIN ipLog' \ {k} :
                          j \in DOMAIN ipLog /\ ipLog'[j] = ipLog[j]
                     /\ IF inv'[p].resp.statusCode = 429 THEN ipLog' = ipLog
                        ELSE ipLog'[k].count =
                               IF /\ k \in DOMAIN ipLog
                                  /\ now - ipLog[k].windowStart <= RATE_WINDOW_MS
                               THEN ipLog[k].count + 1 ELSE 1

\* C18 as stated: the key is the trimmed first entry of the header whenever the
\* header is there.
C18_AsClaimed == [][KeyedCount(KeyAsClaimed)]_vars

\* C18: every POST that reaches the rate-limit stage counts toward its key's
\* limit, whatever happens to it later, and non-POST requests change no entry;
\* the key is the trimmed first comma-separated entry of x-forwarded-for, and
\* "unknown" for every request without the header or with that entry empty.
C18_KeyedCount == [][KeyedCount(KeyAmended)]_vars

\* A POST whose header has a blank first entry failed validation and was
\* counted under "unknown"; POSTs of the address 7 are counted under their key.
C18_Witness ==
    \E p \in Invocations :
        /\ inv[p].pc = "done" /\ inv[p].resp.statusCode = 400
        /\ inv[p].event.xff.set /\ KeyAmended(inv[p].event.xff) = UNKNOWN
        /\ UNKNOWN \in DOMAIN ipLog /\ <<"7">> \in DOMAIN ipLog
        /\ ipLog[<<"7">>].count >= 2
        /\ rl[UNKNOWN].n = 1 /\ ipLog[UNKNOWN].count = 1

\* A step in which the notification send of caller p's invocation returns and
\* the handler calls send for the auto-reply.
SecondSendStarts(p) ==
    /\ inv[p].entry = "handler" /\ inv[p].pc = "post" /\ inv[p].mail = 1
    /\ inv'[p].entry = "handler" /\ inv'[p].mail = 2

\* The notification send found no valid cached token: it made the invocation's
\* one exchange so far, called at inv[p].tnow and answered with inv[p].data.
FetchedByFirstSend(p) == inv[p].nExch = 1 /\ inv[p].data # NoData

\* The lifetime of the token the notification send fetched, in milliseconds.
Lifetime(p) == ExpiresIn(inv[p].data) * 1000

\* What an invocation does with the token cache, the auto-reply reusing the
\* token when proviso(p) holds: the exchange of the notification send caches
\* the token it gives to send; the auto-reply send then takes that token
\* without an exchange; and once the auto-reply send has started, the
\* invocation starts no exchange.
ReuseStep(proviso(_)) ==
    \A p \in Procs :
        /\ /\ inv[p].entry = "handler" /\ inv[p].pc = "token" /\ inv[p].mail = 1
           /\ inv'[p].pc = "post"
           => /\ cachedToken' = inv'[p].token
              /\ tokenExpiry' = inv'[p].tnow + ExpiresIn(inv'[p].data) * 1000
        /\ SecondSendStarts(p) /\ FetchedByFirstSend(p) /\ proviso(p) =>
              /\ inv'[p].pc = "post"
              /\ inv'[p].nExch = 1
              /\ inv'[p].token = inv[p].token
        /\ /\ inv[p].entry = "handler" /\ inv[p].mail = 2 /\ inv[p].pc = "post"
           /\ inv[p].data = NoData /\ inv'[p].entry = "handler"
           => inv'[p].nExch = inv[p].nExch

\* The token's lifetime exceeds the 60-second margin plus the time between the
\* two sends.
LivesLongEnough(p) == Lifetime(p) > TOKEN_BUFFER_MS + (now - inv[p].tnow)

C20_CacheKeptOnFailure ==
    [][ /\ \A p \in SendCalls :
             /\ inv[p].pc = "post" \/ (inv[p].pc = "token" /\ inv'[p].data = NoData)
             /\ inv'[p].result.kind = "thrown"
             => cachedToken' = cachedToken /\ tokenExpiry' = tokenExpiry
        /\ cachedToken' # cachedToken \/ tokenExpiry' # tokenExpiry =>
             \E p \in Procs :
                 /\ inv[p].pc = "token" /\ inv'[p].pc # "token"
                 /\ inv'[p].data # NoData
                 /\ cachedToken' = inv'[p].data.access_token
        /\ \A p \in Procs :
             /\ inv[p].pc = "idle" /\ inv'[p].entry = "send"
             /\ cachedToken # NULL /\ now < tokenExpiry - TOKEN_BUFFER_MS
             => /\ inv'[p].nExch = 0
                /\ inv'[p].pc = "post" => inv'[p].token = cachedToken
                /\ cachedToken' = cachedToken /\ tokenExpiry' = tokenExpiry
      ]_vars

\* The provider rejected the token of one call with INVALID_OAUTHTOKEN; the
\* cache still holds that token, and another call has taken it from the cache
\* for its own POST.
C20_Witness ==
    \E p \in SendCalls : \E q \in SendCalls :
        /\ inv[p].pc = "ret" /\ inv[p].result = Thrown(AUTH_FAILURE)
        /\ inv[p].got.errorCode = "INVALID_OAUTHTOKEN"
        /\ inv[p].token = cachedToken /\ now < tokenExpiry - TOKEN_BUFFER_MS
        /\ inv[q].pc = "post" /\ inv[q].nExch = 0 /\ inv[q].token = inv[p].token

====
